---- MODULE Spec2Model ----
(***************************************************************************)
(* Model of consumers/consumer_hanson.py: a Kafka consumer that keeps, per *)
(* author, a message count and a running average sentiment in the SQLite   *)
(* table "messages", mirrors the sums in two module-level dictionaries and *)
(* redraws a bar chart after every message.                                *)
(*                                                                         *)
(* REAL values (sentiments, averages) are modelled in fixed point: the     *)
(* integer v stands for v / Scale, and a division rounds to the nearest    *)
(* representable value (ties to even), as a floating-point division does.  *)
(* Sums and products of the small values used here are exact.              *)
(***************************************************************************)
EXTENDS Integers, Sequences, FiniteSets, TLC

VARIABLES
    fileExists,         \* SQLITE_PATH exists on disk
    tableExists,        \* the table "messages" exists in the file
    rows,               \* committed rows of "messages", in id order
    writer,             \* connection holding SQLite's write lock, or NoConn
    pc,                 \* position of every process (engine and callers)
    arg,                \* (author, sentiment) of each call in progress
    row,                \* result of each call's SELECT (fetchone)
    txn,                \* uncommitted statement of each connection
    msg,                \* msg.value handed to process_message
    delivered,          \* payloads the consumer has yielded so far
    author_sentiments,  \* module global: author -> sum of sentiments
    author_counts,      \* module global: author -> number of messages
    chart,              \* the mapping drawn by the last update_live_chart
    notifications,      \* number of completed update_live_chart calls
    committed,          \* log of committed upserts, in commit order
    err,                \* exception that ended the engine, if any
    cEvents,            \* two-run comparison: the events of each author
    cRows,              \* two-run comparison: the table of each run
    cPos,               \* two-run comparison: events applied, per run/author
    env,                \* what the run finds: broker, topic, old database
    calls               \* how often each startup check has been called

vars == <<fileExists, tableExists, rows, writer, pc, arg, row, txn, msg,
          delivered, author_sentiments, author_counts, chart, notifications,
          committed, err, cEvents, cRows, cPos, env, calls>>

dbVars     == <<fileExists, tableExists, rows, writer>>
callVars   == <<arg, row, txn>>
cacheVars  == <<author_sentiments, author_counts>>
viewVars   == <<chart, notifications>>
commVars   == <<cEvents, cRows, cPos>>
startVars  == <<env, calls>>

(***************************************************************************)
(* Bounds                                                                  *)
(***************************************************************************)
MaxMsgs  == 3       \* messages the consumer yields in one run
NWorkers == 3       \* concurrent callers of update_sentiment_by_author
MaxEv    == 2       \* events per author in the two-run comparison

(***************************************************************************)
(* Values                                                                  *)
(***************************************************************************)
Scale == 10                     \* the integer v stands for the REAL v / 10
One   == Scale                  \* 1.0
Zero  == 0                      \* 0.0

NoneV   == "None"               \* Python None / SQL NULL
Authors == {"Alice", "Bob"}
AuthorVals == Authors \cup {NoneV}
SentimentVals == {-2, 4, 8}     \* -0.2, 0.4, 0.8

Engine  == 0
Workers == 1..NWorkers
Conns   == {Engine} \cup Workers
NoConn  == -1

Abs(x) == IF x < 0 THEN -x ELSE x

\* a / b rounded to the nearest integer, ties to even (b > 0)
RoundDiv(a, b) ==
    LET q == a \div b
        r == a % b
    IN  IF 2 * r < b THEN q
        ELSE IF 2 * r > b THEN q + 1
        ELSE IF q % 2 = 0 THEN q ELSE q + 1

(***************************************************************************)
(* Payloads and their decoding (value_deserializer, line 195)              *)
(***************************************************************************)
\* the "sentiment" entry of a JSON object
NumField(v) == [k |-> "num", v |-> v]
AbsentField == [k |-> "absent", v |-> 0]
NullField   == [k |-> "null", v |-> 0]
BadField    == [k |-> "bad", v |-> 0]       \* a string that is not a number
Fields == {NumField(v) : v \in SentimentVals} \cup {AbsentField, NullField, BadField}

Payload(kind, a, f) == [kind |-> kind, author |-> a, sentiment |-> f]
Objects  == {Payload("object", a, f) : a \in AuthorVals, f \in Fields}
BadUtf8  == Payload("bad_utf8", NoneV, AbsentField)
BadJson  == Payload("bad_json", NoneV, AbsentField)    \* e.g. "{not json"
NonObject == Payload("non_object", NoneV, AbsentField) \* e.g. "[1, 2]"
Malformed == {BadUtf8, BadJson}
Payloads == Objects \cup Malformed \cup {NonObject}

NoMsg == Payload("none", NoneV, AbsentField)

\* json.loads(x.decode("utf-8")): the exception it raises, or "ok"
DecodeOutcome(p) ==
    IF p.kind = "bad_utf8" THEN "UnicodeDecodeError"
    ELSE IF p.kind = "bad_json" THEN "JSONDecodeError"
    ELSE "ok"

\* message.get("author")
GetAuthor(m) == m.author

\* float(message.get("sentiment", 0.0)): the exception it raises, or "ok"
FloatOutcome(m) ==
    IF m.sentiment.k = "null" THEN "TypeError"
    ELSE IF m.sentiment.k = "bad" THEN "ValueError"
    ELSE "ok"

GetSentiment(m) == IF m.sentiment.k = "num" THEN m.sentiment.v ELSE Zero

(***************************************************************************)
(* The table "messages" and the statements of update_sentiment_by_author   *)
(***************************************************************************)
Row(i, a, n, s) == [id |-> i, author |-> a, num_messages |-> n, average_sentiment |-> s]

NoRow == [found |-> FALSE, num_messages |-> 0, average_sentiment |-> 0]

RowsOf(t, a) == SelectSeq(t, LAMBDA r : r.author = a)

\* faulty variant: the SELECT has lost its WHERE clause
SelectRow_anyAuthor(t, a) ==
    IF t # <<>>
    THEN [found |-> TRUE, num_messages |-> t[1].num_messages,
          average_sentiment |-> t[1].average_sentiment]
    ELSE NoRow

\* SELECT num_messages, average_sentiment FROM messages WHERE author = ?
\* followed by fetchone(); "author = NULL" is true of no row
SelectRow(t, a) ==
    IF a # NoneV /\ \E i \in DOMAIN t : t[i].author = a
    THEN LET i == CHOOSE j \in DOMAIN t :
                    /\ t[j].author = a
                    /\ \A k \in DOMAIN t : t[k].author = a => j <= k
         IN  [found |-> TRUE, num_messages |-> t[i].num_messages,
              average_sentiment |-> t[i].average_sentiment]
    ELSE NoRow

NoTxn == [op |-> "NONE", author |-> NoneV, num_messages |-> 0, average_sentiment |-> 0]

\* faulty variant: the old average is not weighted by its count
NewAverage_unweighted(avg_sentiment, num_messages, sentiment) ==
    RoundDiv(avg_sentiment + sentiment, 2)

\* the running mean of line 105
NewAverage(avg_sentiment, num_messages, sentiment) ==
    RoundDiv(avg_sentiment * num_messages + sentiment, num_messages + 1)

\* faulty variant: the INSERT leaves num_messages to the column default 0
WriteOp_insertZero(r, a, s) ==
    IF r.found
    THEN [op |-> "UPDATE", author |-> a,
          num_messages |-> r.num_messages + 1,
          average_sentiment |-> NewAverage(r.average_sentiment, r.num_messages, s)]
    ELSE [op |-> "INSERT", author |-> a, num_messages |-> 0, average_sentiment |-> s]

\* the statement chosen by "if row:" (lines 102-121)
WriteOp(r, a, s) ==
    IF r.found
    THEN [op |-> "UPDATE", author |-> a,
          num_messages |-> r.num_messages + 1,
          average_sentiment |-> NewAverage(r.average_sentiment, r.num_messages, s)]
    ELSE [op |-> "INSERT", author |-> a, num_messages |-> 1, average_sentiment |-> s]

\* author TEXT UNIQUE: a second row with the same non-NULL author is refused
ViolatesUnique(t, w) ==
    /\ w.op = "INSERT"
    /\ w.author # NoneV
    /\ \E i \in DOMAIN t : t[i].author = w.author

\* faulty variant: the UPDATE sets the count and leaves the average
ApplyTxn_countOnly(t, w) ==
    IF w.op = "UPDATE"
    THEN [i \in DOMAIN t |->
            IF w.author # NoneV /\ t[i].author = w.author
            THEN [t[i] EXCEPT !.num_messages = w.num_messages]
            ELSE t[i]]
    ELSE IF w.op = "INSERT"
    THEN Append(t, Row(Len(t) + 1, w.author, w.num_messages, w.average_sentiment))
    ELSE t

\* the table after the statement w
ApplyTxn(t, w) ==
    IF w.op = "UPDATE"
    THEN [i \in DOMAIN t |->
            IF w.author # NoneV /\ t[i].author = w.author
            THEN [t[i] EXCEPT !.num_messages = w.num_messages,
                              !.average_sentiment = w.average_sentiment]
            ELSE t[i]]
    ELSE IF w.op = "INSERT"
    THEN Append(t, Row(Len(t) + 1, w.author, w.num_messages, w.average_sentiment))
    ELSE t

\* update_sentiment_by_author run without interruption on the table t
Upsert(t, a, s) == ApplyTxn(t, WriteOp(SelectRow(t, a), a, s))

(***************************************************************************)
(* Initial state: the process has just been started                        *)
(***************************************************************************)
PriorRows == {<<>>, <<Row(1, "Alice", 5, 4)>>, <<Row(1, "Bob", 1, 8), Row(2, NoneV, 1, -2)>>}

EmptyMap == [a \in {} |-> 0]

IdleCalls ==
    /\ arg = [c \in Conns |-> [author |-> NoneV, sentiment |-> Zero]]
    /\ row = [c \in Conns |-> NoRow]
    /\ txn = [c \in Conns |-> NoTxn]

EngineFresh ==
    /\ msg = NoMsg
    /\ delivered = <<>>
    /\ author_sentiments = EmptyMap
    /\ author_counts = EmptyMap
    /\ chart = EmptyMap
    /\ notifications = 0
    /\ committed = <<>>
    /\ err = "none"

CommIdle ==
    /\ cEvents = [a \in AuthorVals |-> <<>>]
    /\ cRows = [r \in 1..2 |-> <<>>]
    /\ cPos = [r \in 1..2 |-> [a \in AuthorVals |-> 0]]

NoCalls == [verify_services |-> 0, is_topic_available |-> 0]

\* an environment in which every startup check passes
EnvUp(t) == [brokerUp |-> TRUE, topicExists |-> TRUE, oldData |-> t # <<>>]

Init ==
    /\ \/ fileExists = FALSE /\ tableExists = FALSE /\ rows = <<>>
       \/ fileExists = TRUE /\ tableExists = TRUE /\ rows \in PriorRows
    /\ \E b \in BOOLEAN, t \in BOOLEAN :
        env = [brokerUp |-> b, topicExists |-> t, oldData |-> rows # <<>>]
    /\ calls = NoCalls
    /\ writer = NoConn
    /\ pc = [c \in Conns |-> IF c = Engine THEN "main" ELSE "idle"]
    /\ IdleCalls
    /\ EngineFresh
    /\ CommIdle

(***************************************************************************)
(* Steps shared by the engine and by concurrent callers                    *)
(***************************************************************************)
\* faulty variant: process_message returns right after the store write
AfterCommit_noNotify(c) == IF c = Engine THEN "pull" ELSE "done"

AfterCommit(c) == IF c = Engine THEN "cache" ELSE "done"

\* faulty variant: the exception is caught and ignored, the caller carries on
Raise_swallowed(c, e) ==
    /\ pc' = [pc EXCEPT ![c] = IF c = Engine THEN "cache" ELSE "done"]
    /\ err' = IF c = Engine THEN e ELSE err
    /\ txn' = [txn EXCEPT ![c] = NoTxn]
    /\ writer' = IF writer = c THEN NoConn ELSE writer

\* an exception leaves update_sentiment_by_author: nothing catches it, so a
\* caller's call fails and the engine's process ends (lines 162, 205, 233)
Raise(c, e) ==
    /\ pc' = [pc EXCEPT ![c] = IF c = Engine THEN "stopped" ELSE "failed"]
    /\ err' = IF c = Engine THEN e ELSE err
    /\ txn' = [txn EXCEPT ![c] = NoTxn]
    /\ writer' = IF writer = c THEN NoConn ELSE writer

\* lines 92-100: connect, SELECT, fetchone
Select(c) ==
    /\ pc[c] = "select"
    /\ tableExists
    /\ row' = [row EXCEPT ![c] = SelectRow(rows, arg[c].author)]
    /\ pc' = [pc EXCEPT ![c] = "write"]
    /\ UNCHANGED <<dbVars, arg, txn, msg, delivered, cacheVars, viewVars,
                   committed, err, commVars, startVars>>

\* lines 102-121: UPDATE or INSERT; the statement opens a transaction and
\* takes the write lock of the database file
Write(c) ==
    /\ pc[c] = "write"
    /\ writer = NoConn
    /\ LET w == WriteOp(row[c], arg[c].author, arg[c].sentiment)
       IN  IF ViolatesUnique(rows, w)
           THEN Raise(c, "IntegrityError")
           ELSE /\ txn' = [txn EXCEPT ![c] = w]
                /\ writer' = c
                /\ pc' = [pc EXCEPT ![c] = "commit"]
                /\ err' = err
    /\ UNCHANGED <<fileExists, tableExists, rows, arg, row, msg, delivered,
                   cacheVars, viewVars, committed, commVars, startVars>>

\* lines 123-124: commit, close
Commit(c) ==
    /\ pc[c] = "commit"
    /\ writer = c
    /\ rows' = ApplyTxn(rows, txn[c])
    /\ committed' = Append(committed, [conn |-> c, author |-> arg[c].author,
                                       sentiment |-> arg[c].sentiment])
    /\ txn' = [txn EXCEPT ![c] = NoTxn]
    /\ writer' = NoConn
    /\ pc' = [pc EXCEPT ![c] = AfterCommit(c)]
    /\ UNCHANGED <<fileExists, tableExists, arg, row, msg, delivered,
                   cacheVars, viewVars, err, commVars, startVars>>

\* a statement or the commit raises sqlite3.Error (disk full, I/O error, ...);
\* the open transaction is rolled back
StoreFail(c) ==
    /\ pc[c] \in {"select", "write", "commit"}
    /\ Raise(c, "StoreWriteError")
    /\ UNCHANGED <<fileExists, tableExists, rows, arg, row, msg, delivered,
                   cacheVars, viewVars, committed, commVars, startVars>>

(***************************************************************************)
(* The engine: main, consume_messages_from_kafka, process_message          *)
(***************************************************************************)
Goto(p) == pc' = [pc EXCEPT ![Engine] = p]

\* faulty variant: the process starts over instead of ending
Stop_restart(e) ==
    /\ pc' = [pc EXCEPT ![Engine] = "main"]
    /\ err' = e

Stop(e) ==
    /\ pc' = [pc EXCEPT ![Engine] = "stopped"]
    /\ err' = e

\* faulty variant: the old database file is kept
MainUnlink_keepFile ==
    /\ pc[Engine] = "main"
    /\ Goto("init_db")
    /\ UNCHANGED <<dbVars, callVars, msg, delivered, cacheVars, viewVars,
                   committed, err, commVars, startVars>>

\* lines 228-230: delete the old database file
MainUnlink ==
    /\ pc[Engine] = "main"
    /\ IF fileExists
       THEN fileExists' = FALSE /\ tableExists' = FALSE /\ rows' = <<>>
       ELSE UNCHANGED <<fileExists, tableExists, rows>>
    /\ Goto("init_db")
    /\ UNCHANGED <<writer, callVars, msg, delivered, cacheVars, viewVars,
                   committed, err, commVars, startVars>>

\* lines 67-83: CREATE TABLE IF NOT EXISTS messages
init_db ==
    /\ pc[Engine] = "init_db"
    /\ fileExists' = TRUE
    /\ tableExists' = TRUE
    /\ rows' = IF tableExists THEN rows ELSE <<>>
    /\ Goto("verify_services")
    /\ UNCHANGED <<writer, callVars, msg, delivered, cacheVars, viewVars,
                   committed, err, commVars, startVars>>

\* the readiness check of utils_producer: it reports an unreachable broker
\* by raising
VerifyOutcome(e) == IF e.brokerUp THEN "ok" ELSE "ConsumerUnavailableError"

\* the topic check of utils_producer: it reports a missing topic by raising
TopicOutcome(e) == IF e.topicExists THEN "ok" ELSE "TopicNotFoundError"

\* faulty variant: the topic check has been dropped from the startup
NextStartupStep_noTopicCheck(p) ==
    IF p = "verify_services" THEN "create_consumer" ELSE "pull"

\* lines 187-204: the order of the startup steps
NextStartupStep(p) ==
    IF p = "verify_services" THEN "create_consumer"
    ELSE IF p = "create_consumer" THEN "topic_check"
    ELSE "pull"

\* faulty variant: a failed check is logged and the startup goes on
AfterCheck_ignored(outcome, next) == next

\* lines 189 and 200 stand outside any try: an exception of a check leaves
\* consume_messages_from_kafka and main
AfterCheck(outcome, next) == IF outcome = "ok" THEN next ELSE "stopped"

\* line 189
VerifyServices ==
    /\ pc[Engine] = "verify_services"
    /\ calls' = [calls EXCEPT !.verify_services = @ + 1]
    /\ Goto(AfterCheck(VerifyOutcome(env), NextStartupStep("verify_services")))
    /\ err' = IF VerifyOutcome(env) = "ok" THEN err ELSE VerifyOutcome(env)
    /\ UNCHANGED <<dbVars, callVars, msg, delivered, cacheVars, viewVars,
                   committed, commVars, env>>

\* lines 192-196
CreateConsumer ==
    /\ pc[Engine] = "create_consumer"
    /\ Goto(NextStartupStep("create_consumer"))
    /\ UNCHANGED <<dbVars, callVars, msg, delivered, cacheVars, viewVars,
                   committed, err, commVars, startVars>>

\* line 200
IsTopicAvailable ==
    /\ pc[Engine] = "topic_check"
    /\ calls' = [calls EXCEPT !.is_topic_available = @ + 1]
    /\ Goto(AfterCheck(TopicOutcome(env), NextStartupStep("topic_check")))
    /\ err' = IF TopicOutcome(env) = "ok" THEN err ELSE TopicOutcome(env)
    /\ UNCHANGED <<dbVars, callVars, msg, delivered, cacheVars, viewVars,
                   committed, commVars, env>>

\* faulty variant: a payload that failed to decode is handed on all the same
AfterDecode_always(p) == "process"

\* the pc the loop goes to once the payload p has been deserialized
AfterDecode(p) == IF DecodeOutcome(p) = "ok" THEN "process" ELSE "stopped"

\* line 204: the iterator yields the next record; its value is deserialized
\* on the way, and an exception of the deserializer leaves the for loop
Pull ==
    /\ pc[Engine] = "pull"
    /\ Len(delivered) < MaxMsgs
    /\ \E p \in Payloads :
        /\ delivered' = Append(delivered, p)
        /\ Goto(AfterDecode(p))
        /\ err' = IF DecodeOutcome(p) = "ok" THEN err ELSE DecodeOutcome(p)
        /\ msg' = IF DecodeOutcome(p) = "ok" THEN p ELSE msg
    /\ UNCHANGED <<dbVars, callVars, cacheVars, viewVars, committed, commVars, startVars>>

\* line 204: the consumer is closed, the loop and main return
ConsumerClosed ==
    /\ pc[Engine] = "pull"
    /\ Stop("none")
    /\ UNCHANGED <<dbVars, callVars, msg, delivered, cacheVars, viewVars,
                   committed, commVars, startVars>>

\* lines 159-162: read the two fields and call update_sentiment_by_author
ProcessFields ==
    /\ pc[Engine] = "process"
    /\ IF msg.kind # "object"
       THEN Stop("AttributeError") /\ arg' = arg
       ELSE IF FloatOutcome(msg) # "ok"
       THEN Stop(FloatOutcome(msg)) /\ arg' = arg
       ELSE /\ arg' = [arg EXCEPT ![Engine] =
                        [author |-> GetAuthor(msg), sentiment |-> GetSentiment(msg)]]
            /\ Goto("select")
            /\ err' = err
    /\ UNCHANGED <<dbVars, row, txn, msg, delivered, cacheVars, viewVars,
                   committed, commVars, startVars>>

\* faulty variant: the dictionary is replaced by one holding only the key k
AddTo_replace(d, k, v) == [a \in {k} |-> v]

\* defaultdict: d[k] += v creates the key with the default 0 first
AddTo(d, k, v) ==
    [a \in (DOMAIN d) \cup {k} |-> IF a = k
                                   THEN (IF k \in DOMAIN d THEN d[k] ELSE 0) + v
                                   ELSE d[a]]

\* lines 165-166
UpdateCache ==
    /\ pc[Engine] = "cache"
    /\ author_sentiments' = AddTo(author_sentiments, arg[Engine].author, arg[Engine].sentiment)
    /\ author_counts' = AddTo(author_counts, arg[Engine].author, 1)
    /\ Goto("chart")
    /\ UNCHANGED <<dbVars, callVars, msg, delivered, viewVars, committed,
                   err, commVars, startVars>>

\* faulty variant: the sums are drawn without dividing by the counts
Snapshot_sums(sums, counts) == [a \in DOMAIN sums |-> sums[a]]

\* lines 140-141: the averages the chart shows
Snapshot(sums, counts) == [a \in DOMAIN sums |-> RoundDiv(sums[a], counts[a])]

\* lines 139-149 and 167
update_live_chart ==
    /\ pc[Engine] = "chart"
    /\ chart' = Snapshot(author_sentiments, author_counts)
    /\ notifications' = notifications + 1
    /\ Goto("pull")
    /\ UNCHANGED <<dbVars, callVars, msg, delivered, cacheVars, committed,
                   err, commVars, startVars>>

\* lines 142-149: a call into matplotlib raises; nothing catches it
RenderFail ==
    /\ pc[Engine] = "chart"
    /\ Stop("RenderError")
    /\ UNCHANGED <<dbVars, callVars, msg, delivered, cacheVars, viewVars,
                   committed, commVars, startVars>>

\* the process is killed from outside; an open transaction is rolled back
Terminate ==
    /\ pc[Engine] \notin {"stopped", "off"}
    /\ Raise(Engine, "terminated")
    /\ UNCHANGED <<fileExists, tableExists, rows, arg, row, msg, delivered,
                   cacheVars, viewVars, committed, commVars, startVars>>

Next ==
    \/ MainUnlink
    \/ init_db
    \/ VerifyServices
    \/ CreateConsumer
    \/ IsTopicAvailable
    \/ Pull
    \/ ConsumerClosed
    \/ ProcessFields
    \/ Select(Engine)
    \/ Write(Engine)
    \/ Commit(Engine)
    \/ StoreFail(Engine)
    \/ UpdateCache
    \/ update_live_chart
    \/ RenderFail
    \/ Terminate

Spec == Init /\ [][Next]_vars

(***************************************************************************)
(* Concurrent callers: NWorkers calls of update_sentiment_by_author, each  *)
(* on its own connection, interleaved statement by statement               *)
(***************************************************************************)
\* tables earlier upserts have left behind
ConcStart == {<<>>, <<Row(1, "Alice", 1, One)>>}

InitConc ==
    /\ fileExists = TRUE
    /\ tableExists = TRUE
    /\ rows \in ConcStart
    /\ writer = NoConn
    /\ \E a \in [Workers -> Authors] :
        /\ pc = [c \in Conns |-> IF c = Engine THEN "off" ELSE "select"]
        /\ arg = [c \in Conns |-> IF c = Engine
                                  THEN [author |-> NoneV, sentiment |-> Zero]
                                  ELSE [author |-> a[c], sentiment |-> One]]
    /\ row = [c \in Conns |-> NoRow]
    /\ txn = [c \in Conns |-> NoTxn]
    /\ msg = NoMsg
    /\ delivered = <<>>
    /\ author_sentiments = EmptyMap
    /\ author_counts = EmptyMap
    /\ chart = EmptyMap
    /\ notifications = 0
    /\ committed = [i \in 1..Len(rows) |->
                        [conn |-> Engine, author |-> rows[i].author,
                         sentiment |-> rows[i].average_sentiment]]
    /\ err = "none"
    /\ CommIdle
    /\ env = EnvUp(rows)
    /\ calls = NoCalls

\* sqlite3.connect(db_path) waits 5 seconds for the write lock, then the
\* statement raises OperationalError: database is locked
LockTimeout(c) ==
    /\ pc[c] = "write"
    /\ writer \notin {NoConn, c}
    /\ Raise(c, "OperationalError")
    /\ UNCHANGED <<fileExists, tableExists, rows, arg, row, msg, delivered,
                   cacheVars, viewVars, committed, commVars, startVars>>

NextConc ==
    \E w \in Workers :
        \/ Select(w)
        \/ Write(w)
        \/ Commit(w)
        \/ LockTimeout(w)

SpecConc == InitConc /\ [][NextConc]_vars

(***************************************************************************)
(* Two sequential runs over the same events: each run applies the events   *)
(* of two authors in an interleaving of its own                            *)
(***************************************************************************)
SeqsUpTo(S, n) == UNION {[1..k -> S] : k \in 0..n}

CommStart == {<<>>, <<Row(1, "Alice", 1, 8)>>}
CommSentiments == {-2, 8}

InitComm ==
    /\ fileExists = TRUE
    /\ tableExists = TRUE
    /\ rows = <<>>
    /\ writer = NoConn
    /\ pc = [c \in Conns |-> IF c = Engine THEN "off" ELSE "idle"]
    /\ IdleCalls
    /\ EngineFresh
    /\ \E A \in AuthorVals, B \in AuthorVals :
        /\ A # B
        /\ \E sA \in SeqsUpTo(CommSentiments, MaxEv), sB \in SeqsUpTo(CommSentiments, MaxEv) :
            cEvents = [a \in AuthorVals |-> IF a = A THEN sA ELSE IF a = B THEN sB ELSE <<>>]
    /\ \E t \in CommStart : cRows = [r \in 1..2 |-> t]
    /\ cPos = [r \in 1..2 |-> [a \in AuthorVals |-> 0]]
    /\ env = EnvUp(<<>>)
    /\ calls = NoCalls

\* run r applies the next event of author a
CommStep(r, a) ==
    /\ cPos[r][a] < Len(cEvents[a])
    /\ cRows' = [cRows EXCEPT ![r] = Upsert(cRows[r], a, cEvents[a][cPos[r][a] + 1])]
    /\ cPos' = [cPos EXCEPT ![r][a] = @ + 1]
    /\ UNCHANGED <<dbVars, pc, callVars, msg, delivered, cacheVars, viewVars,
                   committed, err, cEvents, startVars>>

NextComm == \E r \in 1..2, a \in AuthorVals : CommStep(r, a)

SpecComm == InitComm /\ [][NextComm]_vars


(***************************************************************************)
(* Vocabulary of the properties                                            *)
(***************************************************************************)
Last(q) == q[Len(q)]

RECURSIVE CountOf(_, _)
\* number of payloads of q whose author is a
CountOf(q, a) ==
    IF q = <<>> THEN 0
    ELSE CountOf(Tail(q), a) + (IF Head(q).author = a THEN 1 ELSE 0)

RECURSIVE SumOf(_, _)
\* exact sum of the sentiments of the payloads of q whose author is a
SumOf(q, a) ==
    IF q = <<>> THEN 0
    ELSE SumOf(Tail(q), a) + (IF Head(q).author = a THEN GetSentiment(Head(q)) ELSE 0)

\* avg is the mean sum / n up to the rounding of n successive divisions:
\* each update rounds once, so n * avg is off by at most n / 2 more than
\* (n - 1) * (previous avg), i.e. |avg - sum / n| <= (n + 1) / 4 units
IsMean(avg, sum, n) == 4 * Abs(avg * n - sum) <= n * (n + 1)

\* two roundings of the same mean over n values
Close(x, y, n) == 4 * Abs(x - y) <= n + 3

\* every delivered message has been handled to the end without an exception
Settled == pc[Engine] = "pull" \/ (pc[Engine] = "stopped" /\ err = "none")

\* the aggregates (num_messages, average_sentiment) of author a in table t
Agg(t, a) ==
    [i \in 1..Len(RowsOf(t, a)) |->
        <<RowsOf(t, a)[i].num_messages, RowsOf(t, a)[i].average_sentiment>>]

Obj(a, v) == Payload("object", a, NumField(v))

(***************************************************************************)
(* C1: once one engine, started on a fresh store, has processed a finite   *)
(* sequence of messages, every author that occurred has exactly one row;   *)
(* its num_messages is the number of that author's messages and its        *)
(* average_sentiment is their arithmetic mean (up to the rounding of the   *)
(* divisions); Alice 0.8, Bob -0.2, Alice 0.4 ends as Alice (2, 0.6),      *)
(* Bob (1, -0.2).                                                          *)
(***************************************************************************)
C1_RunningMean ==
    Settled =>
        /\ \A a \in Authors :
            CountOf(delivered, a) > 0 =>
                /\ Len(RowsOf(rows, a)) = 1
                /\ RowsOf(rows, a)[1].num_messages = CountOf(delivered, a)
                /\ IsMean(RowsOf(rows, a)[1].average_sentiment,
                          SumOf(delivered, a), CountOf(delivered, a))
        /\ delivered = <<Obj("Alice", 8), Obj("Bob", -2), Obj("Alice", 4)>> =>
                /\ Agg(rows, "Alice") = << <<2, 6>> >>
                /\ Agg(rows, "Bob") = << <<1, -2>> >>

C1_Witness ==
    /\ Settled
    /\ delivered = <<Obj("Alice", 8), Obj("Bob", -2), Obj("Alice", 4)>>
    /\ Agg(rows, "Alice") = << <<2, 6>> >>

\* rows author a had before the concurrent calls started
PriorCount(a) ==
    Cardinality({i \in DOMAIN committed :
                    committed[i].conn = Engine /\ committed[i].author = a})

(***************************************************************************)
(* C2: when NWorkers calls for the same author, each with sentiment 1.0,   *)
(* run concurrently on the same store and have all returned, the author's  *)
(* row counts NWorkers more messages than before, with average 1.0 (no     *)
(* update is lost).                                                        *)
(***************************************************************************)
C2_NoLostUpdate ==
    \A a \in Authors :
        ( /\ \A w \in Workers : arg[w] = [author |-> a, sentiment |-> One]
          /\ \A w \in Workers : pc[w] = "done" )
        => Agg(rows, a) = << <<PriorCount(a) + NWorkers, One>> >>

(***************************************************************************)
(* C3: a payload that fails to decode does not stop the consume loop: the  *)
(* engine goes on to the next message.                                     *)
(***************************************************************************)
C3_DecodeFailureIsolated ==
    (Len(delivered) > 0 /\ Last(delivered) \in Malformed) =>
        (pc[Engine] = "pull" \/ err \in {"none", "terminated"})

(***************************************************************************)
(* C4: a payload that fails to decode never reaches the store: from the    *)
(* moment it is pulled, no row is created or changed and author_sentiments *)
(* and author_counts stay as they were.                                    *)
(***************************************************************************)
C4_DecodeFailureNoEffect ==
    [][ (Len(delivered') > 0 /\ Last(delivered') \in Malformed) =>
            UNCHANGED <<rows, author_sentiments, author_counts>> ]_vars

C4_Witness ==
    /\ Len(delivered) >= 2
    /\ Last(delivered) = BadJson
    /\ delivered[1].kind = "object"
    /\ rows # <<>>
    /\ err = "JSONDecodeError"

\* both runs have applied every event
CommDone == \A r \in 1..2, a \in AuthorVals : cPos[r][a] = Len(cEvents[a])

C5_SameFinal == CommDone => \A a \in AuthorVals : Agg(cRows[1], a) = Agg(cRows[2], a)

C5_Frame ==
    \A r \in 1..2, a \in AuthorVals :
        cPos'[r][a] # cPos[r][a] =>
            \A b \in AuthorVals \ {a} : RowsOf(cRows'[r], b) = RowsOf(cRows[r], b)

(***************************************************************************)
(* C5: two sequential runs that apply the same events of two authors from  *)
(* the same table, each in an interleaving of its own that keeps every     *)
(* author's order, end with the same aggregates for each author; an upsert *)
(* for one author leaves every other author's rows unchanged.              *)
(***************************************************************************)
C5_Commutative == [](C5_SameFinal) /\ [][C5_Frame]_vars

C5_Witness ==
    /\ CommDone
    /\ Len(cEvents["Alice"]) = 2
    /\ Len(cEvents["Bob"]) = 2
    /\ cRows[1] # cRows[2]

(***************************************************************************)
(* C6: for each decoded event the engine performs one upsert with the      *)
(* event's (author, sentiment) and then one Live View notification, whose  *)
(* snapshot maps every author in the store to the stored average.          *)
(***************************************************************************)
C6_OneUpsertThenNotify ==
    /\ notifications <= Len(committed)
    /\ Len(committed) <= notifications + 1
    /\ Len(committed) <= Len(delivered)
    /\ Len(delivered) <= Len(committed) + 1
    /\ pc[Engine] = "pull" =>
        /\ Len(committed) = Len(delivered)
        /\ notifications = Len(delivered)
        /\ Len(delivered) > 0 =>
            /\ committed[Len(committed)].author = GetAuthor(Last(delivered))
            /\ committed[Len(committed)].sentiment = GetSentiment(Last(delivered))
            /\ \A a \in Authors :
                RowsOf(rows, a) # <<>> =>
                    /\ a \in DOMAIN chart
                    /\ Close(chart[a], RowsOf(rows, a)[1].average_sentiment,
                             RowsOf(rows, a)[1].num_messages)

C6_Witness ==
    /\ pc[Engine] = "pull"
    /\ notifications = 3
    /\ Agg(rows, "Alice") = << <<2, 6>> >>
    /\ chart["Alice"] = 6

\* a pull finds the previous message committed and drawn
C7_PullAfterDone ==
    Len(delivered') > Len(delivered) =>
        /\ Len(committed) = Len(delivered)
        /\ notifications = Len(delivered)

C7_CommitOrder ==
    \A i \in DOMAIN committed :
        /\ i <= Len(delivered)
        /\ committed[i].author = GetAuthor(delivered[i])
        /\ committed[i].sentiment = GetSentiment(delivered[i])

(***************************************************************************)
(* C7: the store write and the notification for a message have both        *)
(* finished before the next message is pulled, and upserts are committed   *)
(* in the order the consumer delivered the messages.                       *)
(***************************************************************************)
C7_Sequential == [](C7_CommitOrder) /\ [][C7_PullAfterDone]_vars

C7_Witness ==
    /\ Len(delivered) = 3
    /\ Len(committed) = 2
    /\ notifications = 2
    /\ delivered[1].author # delivered[2].author

(***************************************************************************)
(* C8: the in-memory cache never drifts from the store: between messages,  *)
(* every cached author (None included) has a row whose num_messages is     *)
(* author_counts[a] and whose average is author_sentiments[a] /            *)
(* author_counts[a], and every author of a row is cached.                  *)
(***************************************************************************)
C8_CacheMatchesStore ==
    (pc[Engine] = "pull" \/ (pc[Engine] = "stopped" /\ err # "terminated")) =>
        /\ \A a \in DOMAIN author_counts :
            \E i \in DOMAIN rows :
                /\ rows[i].author = a
                /\ rows[i].num_messages = author_counts[a]
                /\ IsMean(rows[i].average_sentiment, author_sentiments[a], author_counts[a])
        /\ \A i \in DOMAIN rows : rows[i].author \in DOMAIN author_counts

(***************************************************************************)
(* C9: a failed store write is never silently dropped: once                *)
(* update_sentiment_by_author has failed the engine is stopped, and it     *)
(* never updates the in-memory aggregates, notifies the Live View or pulls *)
(* another message.                                                        *)
(***************************************************************************)
C9_StoreFailureStops ==
    [][ err' = "StoreWriteError" =>
            /\ pc'[Engine] = "stopped"
            /\ UNCHANGED <<rows, author_sentiments, author_counts, chart,
                           notifications, delivered, committed>> ]_vars

C9_Witness ==
    /\ err = "StoreWriteError"
    /\ pc[Engine] = "stopped"
    /\ Len(delivered) = 2
    /\ Len(committed) = 1
    /\ notifications = 1

(***************************************************************************)
(* C10: an error raised while rendering the Live View does not propagate   *)
(* into the engine: after it the consume loop is still running.            *)
(***************************************************************************)
C10_RenderErrorContained == err = "RenderError" => pc[Engine] # "stopped"

\* the engine is inside the for loop of consume_messages_from_kafka
InLoop == pc[Engine] \in {"pull", "process", "select", "write", "commit", "cache", "chart"}

(***************************************************************************)
(* C11: verify_services and is_topic_available are each called once, never *)
(* twice, and both have completed before the first message is pulled or    *)
(* any upsert is applied.                                                  *)
(***************************************************************************)
C11_ChecksOnceBeforeLoop ==
    /\ calls.verify_services <= 1
    /\ calls.is_topic_available <= 1
    /\ (InLoop \/ delivered # <<>> \/ committed # <<>>) =>
        /\ calls.verify_services = 1
        /\ calls.is_topic_available = 1
    /\ (pc[Engine] = "stopped" /\ err = "none") =>
        /\ calls.verify_services = 1
        /\ calls.is_topic_available = 1

C11_Witness ==
    /\ pc[Engine] = "pull"
    /\ Len(delivered) = 1
    /\ Len(committed) = 1
    /\ calls = [verify_services |-> 1, is_topic_available |-> 1]

C13_FreshTableAtLoopEntry ==
    /\ (InLoop /\ committed = <<>>) => (fileExists /\ tableExists /\ rows = <<>>)
    /\ InLoop => Len(rows) <= Len(committed)

C13_Witness ==
    /\ env.oldData
    /\ pc[Engine] = "pull"
    /\ delivered = <<>>
    /\ tableExists
    /\ rows = <<>>

(***************************************************************************)
(* C14: the store never holds more than one row for an author value the    *)
(* engine has passed to it, a missing author (None) included: later        *)
(* messages of the author update the row of the first.                     *)
(***************************************************************************)
C14_OneRowPerAuthor == \A a \in AuthorVals : Len(RowsOf(rows, a)) <= 1

(***************************************************************************)
(* C15: in every step, also of interleaved upserts on a shared store, the  *)
(* num_messages of an existing author's row never decreases, and a         *)
(* committed upsert for that author raises it by exactly 1.                *)
(***************************************************************************)
C15_CountMonotone ==
    [][ \A i \in DOMAIN rows :
            rows[i].author \in Authors =>
                /\ i \in DOMAIN rows'
                /\ rows'[i].num_messages >= rows[i].num_messages
                /\ (Len(committed') > Len(committed)
                        /\ Last(committed').author = rows[i].author) =>
                    rows'[i].num_messages = rows[i].num_messages + 1 ]_vars

(***************************************************************************)
(* C16: a message whose sentiment is absent or is not a number is handled  *)
(* as sentiment 0.0: process_message does not fail on it.                  *)
(***************************************************************************)
C16_SentimentDefaultsToZero ==
    ( /\ Len(delivered) > 0
      /\ Last(delivered).kind = "object"
      /\ Last(delivered).sentiment.k \in {"absent", "bad"} )
    => err \notin {"TypeError", "ValueError"}

\* the engine is inside update_sentiment_by_author
InUpsert == pc[Engine] \in {"select", "write", "commit"}

\* a step leaves every row as it was, or gives the author's row the complete
\* new pair (a new row: count 1 and the sentiment)
C17_AllOrNothing ==
    InUpsert =>
        \A i \in DOMAIN rows' :
            IF i \in DOMAIN rows
            THEN \/ rows'[i] = rows[i]
                 \/ /\ rows'[i].author = arg[Engine].author
                    /\ rows'[i].num_messages = rows[i].num_messages + 1
                    /\ rows'[i].average_sentiment =
                         NewAverage(rows[i].average_sentiment, rows[i].num_messages,
                                    arg[Engine].sentiment)
                    /\ pc'[Engine] = "cache"
            ELSE /\ rows'[i] = Row(i, arg[Engine].author, 1, arg[Engine].sentiment)
                 /\ pc'[Engine] = "cache"

\* when update_sentiment_by_author has returned, its upsert is committed
C17_WriteThrough ==
    pc[Engine] \in {"cache", "chart"} =>
        /\ txn[Engine] = NoTxn
        /\ writer = NoConn
        /\ Len(committed) = Len(delivered)
        /\ Last(committed).author = arg[Engine].author
        /\ Last(committed).sentiment = arg[Engine].sentiment
        /\ \E i \in DOMAIN rows : rows[i].author = arg[Engine].author

(***************************************************************************)
(* C17: each upsert is write-through and all-or-nothing: when              *)
(* update_sentiment_by_author returns, the new pair is committed, and if   *)
(* the process is terminated during an upsert the author's row holds the   *)
(* complete old pair or the complete new pair.                             *)
(***************************************************************************)
C17_Atomic == [](C17_WriteThrough) /\ [][C17_AllOrNothing]_vars

C17_Witness ==
    /\ err = "terminated"
    /\ Len(delivered) = 2
    /\ Len(committed) = 1
    /\ row[Engine].found
    /\ arg[Engine].author = GetAuthor(delivered[2])
    /\ arg[Engine].author = GetAuthor(delivered[1])
    /\ Agg(rows, arg[Engine].author) = << <<1, GetSentiment(delivered[1])>> >>

\* the lifecycle state of the engine
Phase ==
    IF pc[Engine] \in {"main", "init_db", "verify_services", "create_consumer", "topic_check"}
    THEN "INITIALIZING"
    ELSE IF InLoop THEN "RUNNING" ELSE "STOPPED"

\* nothing is pulled or applied before the loop; the loop runs on an
\* initialised store after both checks
C18_PhaseState ==
    /\ Phase = "INITIALIZING" => (delivered = <<>> /\ committed = <<>> /\ notifications = 0)
    /\ Phase = "RUNNING" =>
        /\ tableExists
        /\ calls = [verify_services |-> 1, is_topic_available |-> 1]
        /\ err = "none"

\* the only transitions are INITIALIZING -> RUNNING -> STOPPED (a run that
\* is cut short during startup goes to STOPPED directly); the loop ends
\* without an error only when the consumer is exhausted; STOPPED is final
C18_PhaseStep ==
    /\ Phase' # Phase =>
        \/ Phase = "INITIALIZING" /\ Phase' = "RUNNING" /\ pc'[Engine] = "pull"
        \/ Phase = "INITIALIZING" /\ Phase' = "STOPPED" /\ err' # "none"
        \/ Phase = "RUNNING" /\ Phase' = "STOPPED"
                /\ (err' = "none" => pc[Engine] = "pull")
    /\ Phase = "STOPPED" =>
        UNCHANGED <<pc, delivered, rows, committed, author_sentiments,
                    author_counts, chart, notifications>>

(***************************************************************************)
(* C18: the engine's lifecycle is INITIALIZING -> RUNNING -> STOPPED:      *)
(* nothing is pulled or applied before the store is initialised and the    *)
(* startup steps are done, the engine stays RUNNING until the consumer is  *)
(* exhausted or the process ends, and once STOPPED it never pulls or       *)
(* applies another message.                                                *)
(***************************************************************************)
C18_Lifecycle == [](C18_PhaseState) /\ [][C18_PhaseStep]_vars

C18_Witness ==
    /\ Phase = "STOPPED"
    /\ err = "none"
    /\ Len(delivered) = 2
    /\ Len(committed) = 2
    /\ notifications = 2

RECURSIVE SumNum(_)
\* sum of num_messages over the rows of t
SumNum(t) == IF t = <<>> THEN 0 ELSE Head(t).num_messages + SumNum(Tail(t))

RECURSIVE SumOver(_, _)
\* sum of d[k] over the keys k in S
SumOver(d, S) ==
    IF S = {} THEN 0
    ELSE LET k == CHOOSE x \in S : TRUE IN d[k] + SumOver(d, S \ {k})

(***************************************************************************)
(* C19: for one engine on a fresh store, the sum of num_messages over all  *)
(* rows equals the number of committed upserts, and between messages it    *)
(* equals the sum of author_counts; this includes the author None.         *)
(***************************************************************************)
C19_Conservation ==
    /\ (InLoop \/ delivered # <<>>) => SumNum(rows) = Len(committed)
    /\ pc[Engine] = "pull" =>
        SumOver(author_counts, DOMAIN author_counts) = Len(committed)
    /\ pc[Engine] = "cache" =>
        SumOver(author_counts, DOMAIN author_counts) = Len(committed) - 1

C19_Witness ==
    /\ pc[Engine] = "pull"
    /\ Len(committed) = 3
    /\ Len(RowsOf(rows, NoneV)) = 2
    /\ Len(rows) = 3
    /\ author_counts[NoneV] = 2

\* update_live_chart never divides by zero
C20_ChartInputs ==
    pc[Engine] = "chart" =>
        /\ DOMAIN author_sentiments = DOMAIN author_counts
        /\ \A a \in DOMAIN author_counts : author_counts[a] >= 1

\* an author once shown stays on the chart
C20_ChartGrows == DOMAIN chart \subseteq DOMAIN chart'

(***************************************************************************)
(* C20: whenever update_live_chart runs, author_sentiments and             *)
(* author_counts have the same keys and every count is at least 1, so the  *)
(* division never divides by zero, and the set of authors shown only grows *)
(* from one refresh to the next.                                           *)
(***************************************************************************)
C20_ChartSafe == [](C20_ChartInputs) /\ [][C20_ChartGrows]_vars

C20_Witness ==
    /\ pc[Engine] = "pull"
    /\ notifications = 3
    /\ DOMAIN chart = {"Alice", NoneV}
    /\ author_counts["Alice"] = 2

TypeOK ==
    /\ fileExists \in BOOLEAN
    /\ tableExists \in BOOLEAN
    /\ writer \in Conns \cup {NoConn}
    /\ notifications \in Nat
    /\ Len(delivered) <= MaxMsgs
    /\ DOMAIN author_sentiments = DOMAIN author_counts

====
